---- MODULE Spec2Model ----
(***************************************************************************)
(* Model of jsonstore.objectstore.table: a content-addressed store that    *)
(* decomposes a JSON object into one row per property, keyed by the SHA1   *)
(* of the object's canonical JSON, on top of one sqlite3 connection.       *)
(*                                                                         *)
(* Text (canonical JSON, fingerprints, property names) is a sequence of    *)
(* one-character strings, so that encoding and parsing are computed.       *)
(***************************************************************************)
EXTENDS Integers, Sequences, FiniteSets, TLC

\* Bounds of the model.
MaxInserts == 2
MaxBatch == 2

----------------------------------------------------------------------------
(* JSON values as Python holds them.  A float is held in tenths            *)
(* (JFloat(15) is 1.5, JFloat(10) is 1.0); NaN is the non-finite float.      *)
(* A dict is the sequence of its items in insertion order.                 *)

JNull == <<"null">>
JBool(b) == <<"bool", b>>
JInt(n) == <<"int", n>>
JFloat(t) == <<"float", t>>
JNaN == <<"nan">>
JStr(s) == <<"str", s>>
JArr(es) == <<"arr", es>>
JObj(items) == <<"obj", items>>

IsDict(v) == v[1] = "obj"

\* The characters of the model in ascending byte order.
Alphabet ==
  << "\"", "#", ",", "-", ".", "0", "1", "2", "3", "4", "5", "6", "7", "8",
     "9", ":", "[", "\\", "]", "a", "b", "e", "f", "h", "l", "n", "r", "s",
     "t", "u", "x", "y", "{", "}" >>

Ord(c) == CHOOSE i \in 1..Len(Alphabet) : Alphabet[i] = c

\* Byte-wise lexicographic order on text.
RECURSIVE LexLess(_, _)
LexLess(s, t) ==
  IF t = <<>> THEN FALSE
  ELSE IF s = <<>> THEN TRUE
  ELSE IF Head(s) = Head(t) THEN LexLess(Tail(s), Tail(t))
  ELSE Ord(Head(s)) < Ord(Head(t))

Digits == << "0", "1", "2", "3", "4", "5", "6", "7", "8", "9" >>
IsDigit(c) == \E i \in 1..10 : Digits[i] = c
DigitVal(c) == (CHOOSE i \in 1..10 : Digits[i] = c) - 1

RECURSIVE NatText(_)
NatText(n) ==
  IF n < 10 THEN << Digits[n + 1] >>
  ELSE NatText(n \div 10) \o << Digits[(n % 10) + 1] >>

IntText(n) == IF n < 0 THEN <<"-">> \o NatText(-n) ELSE NatText(n)

Abs(n) == IF n < 0 THEN -n ELSE n

\* A number whose value is integral is written as a plain integer, a
\* fractional one with its decimal point.
FloatText(t) ==
  IF t % 10 = 0 THEN IntText(t \div 10)
  ELSE (IF t < 0 THEN <<"-">> ELSE <<>>)
       \o NatText(Abs(t) \div 10) \o <<".">> \o << Digits[(Abs(t) % 10) + 1] >>

RECURSIVE EscapeText(_)
EscapeText(s) ==
  IF s = <<>> THEN <<>>
  ELSE (IF Head(s) \in {"\"", "\\"} THEN <<"\\", Head(s)>> ELSE <<Head(s)>>)
       \o EscapeText(Tail(s))

StrText(s) == <<"\"">> \o EscapeText(s) \o <<"\"">>

\* The outcome of an encoding that raises.
EncodingError == <<"EncodingError">>

\* Items of a dict sorted by key (insertion sort, keys are unique).
RECURSIVE InsertItem(_, _)
InsertItem(sorted, it) ==
  IF sorted = <<>> THEN <<it>>
  ELSE IF LexLess(it[1], Head(sorted)[1]) THEN <<it>> \o sorted
  ELSE <<Head(sorted)>> \o InsertItem(Tail(sorted), it)

RECURSIVE SortItems(_)
SortItems(items) ==
  IF items = <<>> THEN <<>>
  ELSE InsertItem(SortItems(SubSeq(items, 1, Len(items) - 1)), items[Len(items)])

RECURSIVE canonical_json(_)
RECURSIVE EncodeElems(_)
RECURSIVE EncodeMembers(_)

\* Comma-separated encodings of the elements of an array.
EncodeElems(es) ==
  IF es = <<>> THEN <<>>
  ELSE LET h == canonical_json(Head(es))
           r == EncodeElems(Tail(es))
       IN IF h = EncodingError \/ r = EncodingError THEN EncodingError
          ELSE IF Tail(es) = <<>> THEN h
          ELSE h \o <<",">> \o r

\* Comma-separated "key":value encodings of sorted items.
EncodeMembers(items) ==
  IF items = <<>> THEN <<>>
  ELSE LET h == canonical_json(Head(items)[2])
           r == EncodeMembers(Tail(items))
       IN IF h = EncodingError \/ r = EncodingError THEN EncodingError
          ELSE IF Tail(items) = <<>> THEN StrText(Head(items)[1]) \o <<":">> \o h
          ELSE StrText(Head(items)[1]) \o <<":">> \o h \o <<",">> \o r

canonical_json(v) ==
  CASE v[1] = "null" -> <<"n", "u", "l", "l">>
    [] v[1] = "bool" -> IF v[2] THEN <<"t", "r", "u", "e">>
                        ELSE <<"f", "a", "l", "s", "e">>
    [] v[1] = "int" -> IntText(v[2])
    [] v[1] = "float" -> FloatText(v[2])
    [] v[1] = "nan" -> EncodingError
    [] v[1] = "str" -> StrText(v[2])
    [] v[1] = "arr" -> LET r == EncodeElems(v[2])
                       IN IF r = EncodingError THEN EncodingError
                          ELSE <<"[">> \o r \o <<"]">>
    [] v[1] = "obj" -> LET r == EncodeMembers(SortItems(v[2]))
                       IN IF r = EncodingError THEN EncodingError
                          ELSE <<"{">> \o r \o <<"}">>

_canonical_json(obj) == canonical_json(obj)

\* hashlib.sha1(text.encode("utf-8")).hexdigest(): a digest is determined by
\* the text and distinct texts have distinct digests.
sha1_hexdigest(text) == <<"#">> \o text

----------------------------------------------------------------------------
(* json.loads: a recursive-descent parser of JSON text.  A number without  *)
(* a fraction is an int, one with a fraction is a float.                   *)

RECURSIVE ScanDigits(_, _, _)
ScanDigits(t, i, acc) ==
  IF i <= Len(t) /\ IsDigit(t[i]) THEN ScanDigits(t, i + 1, acc * 10 + DigitVal(t[i]))
  ELSE [v |-> acc, n |-> i]

ParseNumber(t, i) ==
  LET neg == t[i] = "-"
      ip == ScanDigits(t, IF neg THEN i + 1 ELSE i, 0)
      sgn == IF neg THEN -1 ELSE 1
  IN IF ip.n <= Len(t) /\ t[ip.n] = "."
     THEN [v |-> JFloat(sgn * (ip.v * 10 + DigitVal(t[ip.n + 1]))), n |-> ip.n + 2]
     ELSE [v |-> JInt(sgn * ip.v), n |-> ip.n]

RECURSIVE ScanString(_, _, _)
ScanString(t, j, acc) ==
  IF t[j] = "\"" THEN [v |-> acc, n |-> j + 1]
  ELSE IF t[j] = "\\" THEN ScanString(t, j + 2, Append(acc, t[j + 1]))
  ELSE ScanString(t, j + 1, Append(acc, t[j]))

RECURSIVE ParseValue(_, _)
RECURSIVE ParseElems(_, _, _)
RECURSIVE ParseMembers(_, _, _)

ParseElems(t, i, acc) ==
  LET r == ParseValue(t, i)
  IN IF t[r.n] = "," THEN ParseElems(t, r.n + 1, Append(acc, r.v))
     ELSE [v |-> JArr(Append(acc, r.v)), n |-> r.n + 1]

ParseMembers(t, i, acc) ==
  LET k == ScanString(t, i + 1, <<>>)
      r == ParseValue(t, k.n + 1)
  IN IF t[r.n] = "," THEN ParseMembers(t, r.n + 1, Append(acc, <<k.v, r.v>>))
     ELSE [v |-> JObj(Append(acc, <<k.v, r.v>>)), n |-> r.n + 1]

ParseValue(t, i) ==
  CASE t[i] = "n" -> [v |-> JNull, n |-> i + 4]
    [] t[i] = "t" -> [v |-> JBool(TRUE), n |-> i + 4]
    [] t[i] = "f" -> [v |-> JBool(FALSE), n |-> i + 5]
    [] t[i] = "\"" -> LET s == ScanString(t, i + 1, <<>>)
                      IN [v |-> JStr(s.v), n |-> s.n]
    [] t[i] = "[" -> IF t[i + 1] = "]" THEN [v |-> JArr(<<>>), n |-> i + 2]
                     ELSE ParseElems(t, i + 1, <<>>)
    [] t[i] = "{" -> IF t[i + 1] = "}" THEN [v |-> JObj(<<>>), n |-> i + 2]
                     ELSE ParseMembers(t, i + 1, <<>>)
    [] OTHER -> ParseNumber(t, i)

json_loads(text) == ParseValue(text, 1).v

----------------------------------------------------------------------------
(* The table.  A row has the four columns of create_object_table; the      *)
(* table is the sequence of its rows in rowid order.  A connection is the  *)
(* committed table db and the table tx that the connection's statements    *)
(* read and write (they differ while a transaction is open).               *)

SqlNull == <<"NULL">>

\* A plain INSERT into a table without the primary key: nothing is replaced.
AppendRow(t, row) == Append(t, row)

\* A conflict on property_name alone: rows of other fingerprints are replaced.
ReplaceByName(t, row) ==
  SelectSeq(t, LAMBDA r : r.name # row.name) \o <<row>>

\* INSERT OR REPLACE under PRIMARY KEY (canonical_json_sha1, property_name):
\* the row in conflict is deleted and the new row is added.
ReplaceRow(t, row) ==
  SelectSeq(t, LAMBDA r : ~(r.fp = row.fp /\ r.name = row.name)) \o <<row>>

\* conn.commit()
Commit(t) == t

\* The for loop of insert_object over the items not yet written; an encoding
\* that raises leaves the loop with the rows executed so far.
RECURSIVE InsertItems(_, _, _, _)
InsertItems(t, h, items, wrote) ==
  IF items = <<>> THEN [tx |-> t, outcome |-> "ok", wrote |-> wrote]
  ELSE LET value == canonical_json(Head(items)[2])
       IN IF value = EncodingError
          THEN [tx |-> t, outcome |-> "error", wrote |-> wrote]
          ELSE LET row == [fp |-> h, name |-> Head(items)[1], json |-> value,
                           sha |-> sha1_hexdigest(value)]
               IN InsertItems(ReplaceRow(t, row), h, Tail(items), wrote \cup {row})

\* obj.items() raises for anything that is not a dict, before any statement.
insert_object(c, h, obj) ==
  IF ~IsDict(obj)
  THEN [db |-> c.db, tx |-> c.tx, outcome |-> "error", result |-> <<>>, wrote |-> {}]
  ELSE LET r == InsertItems(c.tx, h, obj[2], {})
       IN [db |-> IF r.outcome = "ok" THEN Commit(r.tx) ELSE c.db,
           tx |-> r.tx, outcome |-> r.outcome, result |-> <<>>, wrote |-> r.wrote]

insert_object_auto_hash(c, obj) ==
  LET canon == _canonical_json(obj)
  IN IF canon = EncodingError
     THEN [db |-> c.db, tx |-> c.tx, outcome |-> "error", result |-> <<>>, wrote |-> {}]
     ELSE LET h == sha1_hexdigest(canon)
              r == insert_object(c, h, obj)
          IN [r EXCEPT !.result = IF r.outcome = "ok" THEN <<h>> ELSE <<>>]

\* The inner for loop of insert_objects_auto_hash: three columns are given,
\* property_json_sha1 takes the column's default.
RECURSIVE BatchItems(_, _, _, _)
BatchItems(t, h, items, wrote) ==
  IF items = <<>> THEN [tx |-> t, outcome |-> "ok", wrote |-> wrote]
  ELSE LET value == canonical_json(Head(items)[2])
       IN IF value = EncodingError
          THEN [tx |-> t, outcome |-> "error", wrote |-> wrote]
          ELSE LET row == [fp |-> h, name |-> Head(items)[1], json |-> value,
                           sha |-> SqlNull]
               IN BatchItems(ReplaceRow(t, row), h, Tail(items), wrote \cup {row})

\* The outer for loop of insert_objects_auto_hash.
RECURSIVE BatchLoop(_, _, _, _)
BatchLoop(t, objs, hashes, wrote) ==
  IF objs = <<>> THEN [tx |-> t, outcome |-> "ok", result |-> hashes, wrote |-> wrote]
  ELSE LET obj == Head(objs)
           canon == _canonical_json(obj)
       IN IF canon = EncodingError \/ ~IsDict(obj)
          THEN [tx |-> t, outcome |-> "error", result |-> <<>>, wrote |-> wrote]
          ELSE LET h == sha1_hexdigest(canon)
                   r == BatchItems(t, h, obj[2], wrote)
               IN IF r.outcome = "error"
                  THEN [tx |-> r.tx, outcome |-> "error", result |-> <<>>,
                        wrote |-> r.wrote]
                  ELSE BatchLoop(r.tx, Tail(objs), Append(hashes, h), r.wrote)

insert_objects_auto_hash(c, objs) ==
  LET r == BatchLoop(c.tx, objs, <<>>, {})
  IN [db |-> IF r.outcome = "ok" THEN Commit(r.tx) ELSE c.db,
      tx |-> r.tx, outcome |-> r.outcome, result |-> r.result, wrote |-> r.wrote]

\* result[key] = value on a Python dict.
DictSet(items, k, v) ==
  IF \E i \in 1..Len(items) : items[i][1] = k
  THEN [i \in 1..Len(items) |-> IF items[i][1] = k THEN <<k, v>> ELSE items[i]]
  ELSE Append(items, <<k, v>>)

\* json.loads(text) if text is not None else None
ColumnValue(json) == IF json = SqlNull THEN JNull ELSE json_loads(json)

RECURSIVE RowsToDict(_, _)
RowsToDict(rows, items) ==
  IF rows = <<>> THEN items
  ELSE RowsToDict(Tail(rows),
                  DictSet(items, Head(rows).name, ColumnValue(Head(rows).json)))

retrieve_object(t, h) ==
  JObj(RowsToDict(SelectSeq(t, LAMBDA r : r.fp = h), <<>>))

\* ORDER BY canonical_json_sha1 (rows of one fingerprint keep rowid order).
RECURSIVE InsertRow(_, _)
InsertRow(sorted, row) ==
  IF sorted = <<>> THEN <<row>>
  ELSE IF LexLess(row.fp, Head(sorted).fp) THEN <<row>> \o sorted
  ELSE <<Head(sorted)>> \o InsertRow(Tail(sorted), row)

RECURSIVE OrderByFp(_)
OrderByFp(t) ==
  IF t = <<>> THEN <<>>
  ELSE InsertRow(OrderByFp(SubSeq(t, 1, Len(t) - 1)), t[Len(t)])

PyNone == <<"None">>

\* The grouping loop of retrieve_all_objects.
RECURSIVE GroupRows(_, _, _, _)
GroupRows(rows, results, current_hash, current_obj) ==
  IF rows = <<>>
  THEN IF current_hash # PyNone THEN Append(results, JObj(current_obj)) ELSE results
  ELSE LET row == Head(rows)
           fresh == row.fp # current_hash
           res == IF fresh /\ current_hash # PyNone
                  THEN Append(results, JObj(current_obj)) ELSE results
           cur == IF fresh THEN <<>> ELSE current_obj
       IN GroupRows(Tail(rows), res, row.fp,
                    DictSet(cur, row.name, ColumnValue(row.json)))

retrieve_all_objects(t) == GroupRows(OrderByFp(t), <<>>, PyNone, <<>>)

----------------------------------------------------------------------------
(* Equality of JSON values.                                                *)

\* The value with the items of every dict in key order.
RECURSIVE Normal(_)
Normal(v) ==
  CASE v[1] = "arr" -> JArr([i \in 1..Len(v[2]) |-> Normal(v[2][i])])
    [] v[1] = "obj" ->
         JObj(SortItems([i \in 1..Len(v[2]) |-> <<v[2][i][1], Normal(v[2][i][2])>>]))
    [] OTHER -> v

\* Type-faithful equality: same structure, same key sets, int 1 is not
\* float 1.0; the order of a dict's items does not count.
TypeEq(a, b) == Normal(a) = Normal(b)

IsNum(v) == v[1] \in {"bool", "int", "float"}
NumVal(v) ==
  CASE v[1] = "bool" -> IF v[2] THEN 10 ELSE 0
    [] v[1] = "int" -> 10 * v[2]
    [] v[1] = "float" -> v[2]

\* Python's ==: numbers compare by value (1 == 1.0), dicts by key and value.
RECURSIVE PyEq(_, _)
PyEq(a, b) ==
  IF IsNum(a) /\ IsNum(b) THEN NumVal(a) = NumVal(b)
  ELSE IF a[1] # b[1] THEN FALSE
  ELSE CASE a[1] = "arr" ->
              /\ Len(a[2]) = Len(b[2])
              /\ \A i \in 1..Len(a[2]) : PyEq(a[2][i], b[2][i])
         [] a[1] = "obj" ->
              /\ Len(a[2]) = Len(b[2])
              /\ \A i \in 1..Len(a[2]) : \E j \in 1..Len(b[2]) :
                    a[2][i][1] = b[2][j][1] /\ PyEq(a[2][i][2], b[2][j][2])
         [] OTHER -> a = b

----------------------------------------------------------------------------
(* The inputs the callers of the model draw from.                          *)

ka == <<"a">>
kb == <<"b">>
ky == <<"y">>

ObjEmpty == JObj(<<>>)
ObjInt == JObj(<< <<ka, JInt(1)>> >>)
ObjFloat == JObj(<< <<ka, JFloat(10)>> >>)
ObjMixed == JObj(<< <<kb, JNull>>, <<ka, JFloat(15)>> >>)
ObjStr == JObj(<< <<kb, JStr(<<"1">>)>> >>)
ObjNested == JObj(<< <<ka, JArr(<< JInt(1), JObj(<< <<ky, JBool(TRUE)>> >>) >>)>> >>)
ObjNaN == JObj(<< <<ka, JInt(1)>>, <<kb, JNaN>> >>)

Dicts == {ObjEmpty, ObjInt, ObjFloat, ObjMixed, ObjStr, ObjNested, ObjNaN}
Scalars == {JInt(1), JStr(<<"a">>)}
Inputs == Dicts \cup Scalars

\* A fingerprint chosen by the caller of insert_object, and one never stored.
CustomFps == {<<"h">>}
UnknownFp == <<"x">>

\* The batches: sequences of distinct members of BatchPool.
BatchPool == {ObjInt, ObjMixed, JInt(1)}
Batches ==
  {s \in UNION {[1..n -> BatchPool] : n \in 0..MaxBatch} :
     \A i, j \in DOMAIN s : s[i] = s[j] => i = j}

Fingerprint(o) == sha1_hexdigest(canonical_json(o))
Encodable(o) == canonical_json(o) # EncodingError

----------------------------------------------------------------------------
(* State: the connection (db, tx), the insert calls made so far with their *)
(* outcomes (hist), the connection as it was before the last insert call   *)
(* (pre), and the last retrieval made since the last insert call (got).    *)

VARIABLES db, tx, hist, pre, got

vars == <<db, tx, hist, pre, got>>

NoGot == [op |-> "none", arg |-> <<>>, outcome |-> "none", result |-> <<>>]

Conn == [db |-> db, tx |-> tx]

\* The fingerprints returned by the insert calls so far.
InsertedFps ==
  UNION {{hist[i].result[j] : j \in DOMAIN hist[i].result} : i \in DOMAIN hist}

\* The fingerprints a caller retrieves with: its own, one never stored, and
\* those the insert calls returned.
QueryFps == CustomFps \cup {UnknownFp} \cup InsertedFps

\* After sqlite3.connect and create_object_table: an empty committed table.
Init ==
  /\ db = <<>>
  /\ tx = <<>>
  /\ hist = <<>>
  /\ pre = [db |-> <<>>, tx |-> <<>>]
  /\ got = NoGot

Record(op, h, args, r) ==
  /\ db' = r.db
  /\ tx' = r.tx
  /\ hist' = Append(hist, [op |-> op, fp |-> h, args |-> args,
                           outcome |-> r.outcome, result |-> r.result,
                           wrote |-> r.wrote])
  /\ pre' = Conn
  /\ got' = NoGot

Call_insert_object ==
  /\ Len(hist) < MaxInserts
  /\ \E h \in CustomFps, o \in Inputs :
        Record("insert_object", h, <<o>>, insert_object(Conn, h, o))

Call_insert_object_auto_hash ==
  /\ Len(hist) < MaxInserts
  /\ \E o \in Inputs :
        Record("insert_object_auto_hash", <<>>, <<o>>, insert_object_auto_hash(Conn, o))

Call_insert_objects_auto_hash ==
  /\ Len(hist) < MaxInserts
  /\ \E objs \in Batches :
        Record("insert_objects_auto_hash", <<>>, objs, insert_objects_auto_hash(Conn, objs))

Call_retrieve_object ==
  /\ \E h \in QueryFps :
        got' = [op |-> "retrieve_object", arg |-> h, outcome |-> "ok",
                result |-> retrieve_object(tx, h)]
  /\ UNCHANGED <<db, tx, hist, pre>>

Call_retrieve_all_objects ==
  /\ got' = [op |-> "retrieve_all_objects", arg |-> <<>>, outcome |-> "ok",
             result |-> retrieve_all_objects(tx)]
  /\ UNCHANGED <<db, tx, hist, pre>>

Next ==
  \/ Call_insert_object
  \/ Call_insert_object_auto_hash
  \/ Call_insert_objects_auto_hash
  \/ Call_retrieve_object
  \/ Call_retrieve_all_objects

Spec == Init /\ [][Next]_vars

\* The store used through the auto-hash inserts only.
NextAuto ==
  \/ Call_insert_object_auto_hash
  \/ Call_insert_objects_auto_hash
  \/ Call_retrieve_object
  \/ Call_retrieve_all_objects

SpecAuto == Init /\ [][NextAuto]_vars

----------------------------------------------------------------------------
(* Properties.                                                             *)

Last == hist[Len(hist)]
Prev == hist[Len(hist) - 1]

RowSet(t) == {t[i] : i \in DOMAIN t}
RowsOf(t, h) == SelectSeq(t, LAMBDA r : r.fp = h)

IsScalar(v) == v[1] \in {"null", "bool", "int", "float", "nan", "str"}

\* C1: an object inserted with insert_object_auto_hash and retrieved with the
\* returned fingerprint comes back type-faithfully equal (int 1 is not
\* float 1.0, null and nesting preserved).
RoundTrip ==
  (/\ hist # <<>>
   /\ Last.op = "insert_object_auto_hash"
   /\ Last.outcome = "ok"
   /\ got.op = "retrieve_object"
   /\ got.arg = Last.result[1])
  => TypeEq(got.result, Last.args[1])

SameInsertTwice ==
  /\ Len(hist) >= 2
  /\ Last.op \in {"insert_object", "insert_object_auto_hash"}
  /\ Prev.op = Last.op
  /\ Prev.fp = Last.fp
  /\ Prev.args = Last.args
  /\ Prev.outcome = "ok"

\* C2: inserting the same container a second time returns the same
\* fingerprint and leaves the rows as the first insert left them: the same
\* set of rows, the same number of rows, all of them committed.
IdempotentInsert ==
  SameInsertTwice =>
    /\ Last.outcome = "ok"
    /\ Last.result = Prev.result
    /\ RowSet(tx) = RowSet(pre.tx)
    /\ Len(tx) = Len(pre.tx)
    /\ db = tx

IdempotentInsertWitness ==
  /\ SameInsertTwice
  /\ Cardinality(Last.wrote) = 2
  /\ Len(tx) = 2

\* C3: retrieving a fingerprint that has no rows ends in an error, never in
\* an empty object.
MissingIsError ==
  (got.op = "retrieve_object" /\ RowsOf(tx, got.arg) = <<>>)
  => got.outcome = "error"

\* insert_object_auto_hash on each object in order, from connection c.
RECURSIVE EachAutoHash(_, _, _)
EachAutoHash(c, objs, hashes) ==
  IF objs = <<>> THEN [db |-> c.db, tx |-> c.tx, result |-> hashes]
  ELSE LET r == insert_object_auto_hash(c, Head(objs))
       IN EachAutoHash([db |-> r.db, tx |-> r.tx], Tail(objs), hashes \o r.result)

\* C4: a batch insert returns the fingerprints and leaves the rows (all four
\* columns) that inserting its objects one by one returns and leaves.
BatchIsSequential ==
  (hist # <<>> /\ Last.op = "insert_objects_auto_hash" /\ Last.outcome = "ok")
  => LET s == EachAutoHash(pre, Last.args, <<>>)
     IN /\ Last.result = s.result
        /\ tx = s.tx
        /\ db = s.db

\* C5: every stored row carries the canonical form of its value and the
\* hash of that canonical form.
PerValueFingerprint ==
  \A r \in RowSet(tx) \cup RowSet(db) :
     /\ r.json # SqlNull
     /\ canonical_json(json_loads(r.json)) = r.json
     /\ r.sha = sha1_hexdigest(r.json)

\* The insert call of a history entry, made on connection c.
Apply(call, c) ==
  CASE call.op = "insert_object" -> insert_object(c, call.fp, call.args[1])
    [] call.op = "insert_object_auto_hash" -> insert_object_auto_hash(c, call.args[1])
    [] call.op = "insert_objects_auto_hash" -> insert_objects_auto_hash(c, call.args)

\* The table that the calls leave when a call that raises writes nothing.
RECURSIVE Replay(_, _)
Replay(calls, t) ==
  IF calls = <<>> THEN t
  ELSE LET r == Apply(Head(calls), [db |-> t, tx |-> t])
       IN Replay(Tail(calls), IF r.outcome = "ok" THEN r.db ELSE t)

\* C6: the committed table holds the rows of the insert calls that returned
\* and no row of an insert call that raised partway.
AtomicInsert == RowSet(db) = RowSet(Replay(hist, <<>>))

RECURSIVE Ascending(_)
Ascending(S) ==
  IF S = {} THEN <<>>
  ELSE LET m == CHOOSE x \in S : \A y \in S \ {x} : LexLess(x, y)
       IN <<m>> \o Ascending(S \ {m})

\* C7: retrieve_all_objects returns one entry per fingerprint inserted, in
\* ascending order of fingerprint, each what retrieve_object returns.
RetrieveAllComplete ==
  got.op = "retrieve_all_objects" =>
    /\ Len(got.result) = Cardinality(InsertedFps)
    /\ \A i \in 1..Len(got.result) :
          got.result[i] = retrieve_object(tx, Ascending(InsertedFps)[i])

\* C8: after insert_object(h, o1) and insert_object(h, o2) the rows of the
\* keys of o2 hold the values of o2 and retrieve_object(h) has the keys and
\* values of o2 only.
ReinsertReplaces ==
  (/\ Len(hist) >= 2
   /\ Last.op = "insert_object" /\ Last.outcome = "ok"
   /\ Prev.op = "insert_object" /\ Prev.outcome = "ok"
   /\ Prev.fp = Last.fp)
  => /\ \A i \in DOMAIN Last.args[1][2] :
          \E r \in RowSet(RowsOf(tx, Last.fp)) :
             /\ r.name = Last.args[1][2][i][1]
             /\ r.json = canonical_json(Last.args[1][2][i][2])
     /\ PyEq(retrieve_object(tx, Last.fp), Last.args[1])

\* C9: an insert call given a scalar as a top-level value raises and leaves
\* the rows as they were.
ScalarRejected ==
  (hist # <<>> /\ \E i \in DOMAIN Last.args : IsScalar(Last.args[i]))
  => /\ Last.outcome = "error"
     /\ tx = pre.tx
     /\ db = pre.db

\* The fingerprints of the containers of a call.
CallFps(call) ==
  {Fingerprint(call.args[i]) : i \in {j \in DOMAIN call.args : Encodable(call.args[j])}}

\* C10: an auto-hash insert writes rows of its containers' fingerprints only
\* and leaves the rows of every other fingerprint as they were; every
\* non-empty object inserted so far is still what retrieve_object returns
\* for its fingerprint (as Python compares dicts).
Isolation ==
  /\ hist # <<>> =>
       /\ \A r \in Last.wrote : r.fp \in CallFps(Last)
       /\ SelectSeq(tx, LAMBDA r : r.fp \notin CallFps(Last))
            = SelectSeq(pre.tx, LAMBDA r : r.fp \notin CallFps(Last))
  /\ \A i \in DOMAIN hist : hist[i].outcome = "ok" =>
        \A j \in DOMAIN hist[i].args :
           hist[i].args[j] # ObjEmpty =>
              PyEq(retrieve_object(tx, Fingerprint(hist[i].args[j])), hist[i].args[j])

IsolationWitness ==
  /\ Len(hist) >= 2
  /\ Prev.outcome = "ok" /\ Prev.wrote # {}
  /\ Last.outcome = "ok" /\ Last.wrote # {}
  /\ CallFps(Prev) \cap CallFps(Last) = {}
  /\ \E r \in Prev.wrote, w \in Last.wrote : r.name = w.name

====
